---- MODULE Spec2Model ----
(***************************************************************************)
(* PDF merger: the server route POST /api/merge-pdfs (route handler) and   *)
(* the client component PDFMerger (FileList state, drag-and-drop reorder,  *)
(* client-side merge).                                                     *)
(*                                                                         *)
(* A PDF byte buffer is modelled by a document identifier; what pdf-lib    *)
(* makes of the bytes (parse error or page list) and the byte length are   *)
(* functions of that identifier.  A page is [doc, index] with the          *)
(* zero-based index of the page in its source document.                    *)
(***************************************************************************)
EXTENDS Integers, Sequences, FiniteSets, TLC

\* ---------------------------------------------------------------- bounds
\* Longest file list of a request, of a dropped batch and of the FileList.
MaxFiles == 3
\* Number of POST requests the server handles concurrently (SpecConc).
NumCalls == 2
\* Number of identifiers crypto.randomUUID() hands out (SpecUI).
MaxIds == 3
\* Number of files dropped and accepted while merges run (SpecEdit,
\* SpecSettle).
MaxDrops == 2

\* ------------------------------------------------------------- constants
MAX_FILE_SIZE == 10 * 1024 * 1024
DropzoneMaxSize == 10 * 1024 * 1024
DefaultFileName == "merged-document.pdf"
PdfType == "application/pdf"
\* JavaScript null, as returned by FormData.get for an absent field.
Null == "<null>"
\* A message is the sequence of the parts of its template literal; the null
\* errorMsg and the absent error of a response are the empty sequence.
NoError == <<>>

\* ------------------------------------------------------------- documents
\* A, B, C parse; X is corrupt (PDFDocument.load throws); G parses but is
\* one byte over the limit; C is exactly at the limit; F parses and its pages
\* copy, but the document does not serialize (saveAsBase64 throws).
DocIds == {"A", "B", "C", "X", "G", "F"}

Parseable(d) == d # "X"

Serializable(d) == d # "F"

PageCount(d) == IF d = "A" THEN 2 ELSE 1

ByteLength(d) ==
  CASE d = "G" -> MAX_FILE_SIZE + 1
    [] d = "C" -> MAX_FILE_SIZE
    [] OTHER   -> 4096

\* ----------------------------------------------------------- sequences
Reverse(s) == [j \in 1..Len(s) |-> s[Len(s) + 1 - j]]

\* Sequences over S without repetition, of length at most n.
InjSeqs(S, n) ==
  UNION {{s \in [1..m -> S] : \A a, b \in 1..m : a # b => s[a] # s[b]} : m \in 0..n}

RECURSIVE SumTo(_, _)
\* Sum of f[1..n].
SumTo(f, n) == IF n = 0 THEN 0 ELSE SumTo(f, n - 1) + f[n]

\* ------------------------------------------------------ pdf-lib operations
\* Mutant: the indices start at 1, the first page is left out.
getPageIndicesFromOne(pdfDoc) == [j \in 1..(PageCount(pdfDoc) - 1) |-> j]

\* pdfDoc.getPageIndices(): 0 .. pageCount-1 in order.
getPageIndices(pdfDoc) == [j \in 1..PageCount(pdfDoc) |-> j - 1]

\* mergedPdf.copyPages(pdfDoc, indices): one copied page per index, in the
\* order of the indices.
copyPages(pdfDoc, indices) ==
  [j \in 1..Len(indices) |-> [doc |-> pdfDoc, index |-> indices[j]]]

\* Mutant: the pages are inserted at the front of the document.
addPagesAtFront(mergedPdf, pages) == pages \o mergedPdf

\* pages.forEach(page => mergedPdf.addPage(page)): addPage appends.
addPages(mergedPdf, pages) == mergedPdf \o pages

\* ------------------------------------------------------------- requests
\* An uploaded File of the multipart form.
UploadFile(d, t) ==
  [name |-> d \o (IF t = PdfType THEN ".pdf" ELSE ".txt"), size |-> ByteLength(d),
   type |-> t, data |-> d]

\* Every document declared as application/pdf, and B declared as text.
UploadFiles ==
  {UploadFile(d, PdfType) : d \in DocIds} \cup {UploadFile("B", "text/plain")}

\* The fileName form field: absent, present and empty, present.
FileNameFields == {<<>>, <<"">>, <<"report.pdf">>}

\* A body request.formData() cannot read (not a multipart form).
MalformedRequest == [formOk |-> FALSE, files |-> <<>>, fileName |-> <<>>]

\* The user's documents: up to MaxFiles distinct Files, in some order.
Batches == InjSeqs(UploadFiles, MaxFiles)

\* The requests that upload the documents b: in the order given or in the
\* reverse order, with any fileName field; or a body that is no form.
RequestsFor(b) ==
  {MalformedRequest} \cup
  {[formOk |-> TRUE, files |-> fs, fileName |-> fn] :
     fs \in {b, Reverse(b)}, fn \in FileNameFields}

\* formData.get(name): the first value of the field, or null.
FormGet(field) == IF field = <<>> THEN Null ELSE field[1]

\* Mutant: a ?? b, which keeps the empty string.
OrElseNullish(a, b) == IF a = Null THEN b ELSE a

\* JavaScript a || b on strings: b when a is null or the empty string.
OrElse(a, b) == IF a = Null \/ a = "" THEN b ELSE a

\* ------------------------------------------------------------ client files
\* thumbnail of onDrop: set when the bytes load, have a page and serialize;
\* left undefined when the inner try throws.
Thumbnail(d) ==
  IF Parseable(d) /\ PageCount(d) > 0 /\ Serializable(d)
  THEN "data:image/png;base64," \o d
  ELSE Null

\* The PDFFile onDrop builds for an accepted File, with identifier id.
PDFFile(id, f) ==
  [id |-> id, name |-> f.name, size |-> f.size, data |-> f.data,
   thumbnail |-> Thumbnail(f.data)]

\* What a slot of the FileList holds after newFiles[dragIndex] read past the
\* end of the array.
Undefined == [undefined |-> TRUE]

\* The file name ends in .pdf.
HasPdfExtension(f) == f.name \in {d \o ".pdf" : d \in DocIds}

\* Mutant: a file of exactly maxSize bytes is refused.
DropzoneAcceptsBelow(f) ==
  (f.type = PdfType \/ HasPdfExtension(f)) /\ f.size < DropzoneMaxSize

\* react-dropzone with accept {'application/pdf': ['.pdf']} and maxSize: the
\* MIME type or the extension matches, and the size is at most maxSize.
DropzoneAccepts(f) ==
  (f.type = PdfType \/ HasPdfExtension(f)) /\ f.size <= DropzoneMaxSize

\* The filter of onDrop.
IsPdfFile(f) == f.type = PdfType

\* The message of onDropRejected for one rejected file.
RejectionMessage(f) ==
  IF f.size > DropzoneMaxSize /\ (f.type = PdfType \/ HasPdfExtension(f))
  THEN <<f.name, " exceeds the 10MB size limit.">>
  ELSE <<f.name, ": ", "File type must be application/pdf,.pdf">>

RECURSIVE JoinMessages(_)
\* errors.join(' ')
JoinMessages(ms) ==
  IF Len(ms) = 0 THEN <<>>
  ELSE IF Len(ms) = 1 THEN ms[1]
  ELSE ms[1] \o <<" ">> \o JoinMessages(Tail(ms))

\* ------------------------------------------------------- array operations
\* arr[idx] with a zero-based index: undefined past the end.
At(arr, idx) == IF idx < Len(arr) THEN arr[idx + 1] ELSE Undefined

\* arr.splice(start, 1): removes the element at start, nothing past the end.
SpliceOut(arr, start) ==
  IF start < Len(arr)
  THEN [j \in 1..(Len(arr) - 1) |-> IF j <= start THEN arr[j] ELSE arr[j + 1]]
  ELSE arr

\* arr.splice(start, 0, x): inserts x before position start, at the end when
\* start is past it.
SpliceIn(arr, start, x) ==
  LET at == IF start < Len(arr) THEN start ELSE Len(arr)
  IN SubSeq(arr, 1, at) \o <<x>> \o SubSeq(arr, at + 1, Len(arr))

\* The updater of moveFile.
moveFile(prevFiles, dragIndex, hoverIndex) ==
  SpliceIn(SpliceOut(prevFiles, dragIndex), hoverIndex, At(prevFiles, dragIndex))

\* Mutant: the splices are made on prevFiles itself.
prevFilesSpliced(prevFiles, dragIndex, hoverIndex) ==
  SpliceIn(SpliceOut(prevFiles, dragIndex), hoverIndex, At(prevFiles, dragIndex))

\* The array prevFiles after the updater of moveFile ran: as it was, the
\* splices being made on the copy [...prevFiles].
prevFilesAfterMove(prevFiles, dragIndex, hoverIndex) == prevFiles

\* ---------------------------------------------------------------- state
VARIABLES
  post,          \* post[i]: the i-th invocation of the route handler POST
  merge,         \* the invocation of mergePDFsClient
  files,         \* useState files: the FileList
  isProcessing,  \* useState isProcessing
  errorMsg,      \* useState errorMsg (NoError or a message)
  dragItem,      \* react-dnd item of the drag in progress: <<>> or <<index>>
  nextId,        \* identifiers handed out so far
  live,          \* identifiers added and not removed since
  batch          \* the user's documents: the Files uploaded or dropped

vars == <<post, merge, files, isProcessing, errorMsg, dragItem, nextId, live, batch>>

CallIds == 1..NumCalls

NoResponse ==
  [status |-> 0, contentType |-> "", error |-> NoError, disposition |-> "", body |-> <<>>]

\* An invocation that has not started.  files is the array the invocation
\* iterates; invoked records the FileList at the call and thrown the error
\* its outer catch block caught.
IdleCall ==
  [pc |-> "idle", request |-> MalformedRequest, files |-> <<>>, fileName |-> "",
   k |-> 0, created |-> FALSE, mergedPdf |-> <<>>, pdfDoc |-> "", loads |-> 0,
   response |-> NoResponse, link |-> <<>>, invoked |-> <<>>, thrown |-> NoError]

\* NextResponse.json({ error }, { status })
JsonResponse(msg, status) ==
  [status |-> status, contentType |-> "application/json", error |-> msg,
   disposition |-> "", body |-> <<>>]

\* new NextResponse(bytes, { status: 200, headers })
PdfResponse(bytes, fileName) ==
  [status |-> 200, contentType |-> PdfType, error |-> NoError,
   disposition |-> "attachment; filename=\"" \o fileName \o "\"", body |-> bytes]

\* ------------------------------------------------------- validation gate
\* Mutant: the empty check is missing.
NoFilesUnchecked(fs) == FALSE

\* !files || files.length === 0 (server), files.length === 0 (client)
NoFiles(fs) == Len(fs) = 0

\* file.size > MAX_FILE_SIZE
TooLarge(f) == f.size > MAX_FILE_SIZE

\* file.type !== "application/pdf"
NotPdf(f) == f.type # PdfType

\* Mutant: the checks are made of the first file only.
FirstRejectedOfHead(fs) ==
  IF Len(fs) >= 1 /\ (TooLarge(fs[1]) \/ NotPdf(fs[1])) THEN 1 ELSE 0

\* The first file, in list order, that one of the two checks of the loop
\* rejects; 0 when the loop runs to its end.
FirstRejected(fs) ==
  IF \E j \in DOMAIN fs : TooLarge(fs[j]) \/ NotPdf(fs[j])
  THEN CHOOSE j \in DOMAIN fs :
         /\ TooLarge(fs[j]) \/ NotPdf(fs[j])
         /\ \A h \in 1..(j - 1) : ~TooLarge(fs[h]) /\ ~NotPdf(fs[h])
  ELSE 0

\* The 400 response of the loop for the file it stops at: the size check is
\* made first.
RejectResponse(f) ==
  IF TooLarge(f)
  THEN JsonResponse(<<"File ", f.name, " exceeds maximum size of 10MB">>, 400)
  ELSE JsonResponse(<<"File ", f.name, " is not a PDF">>, 400)

\* Mutant: the catch block answers 400.
CatchResponse400 == JsonResponse(<<"An error occurred while merging the PDFs">>, 400)

\* The catch block of POST.
CatchResponse == JsonResponse(<<"An error occurred while merging the PDFs">>, 500)

\* ------------------------------------------------------------------ POST
\* Mutant: one document of the module, shared by the invocations.
SharedDocument(calls, i) == calls[(i % NumCalls) + 1].mergedPdf

\* PDFDocument.create() in invocation i: a new, empty document, whatever
\* the other invocations hold.
NewDocument(calls, i) == <<>>

\* A request arrives (the first, or the next after a response): POST is
\* entered with fresh locals and awaits request.formData().
POST_enter(i, r) ==
  /\ post[i].pc \in {"idle", "done"}
  /\ post' = [post EXCEPT ![i] = [IdleCall EXCEPT !.pc = "formData", !.request = r]]
  /\ UNCHANGED <<merge, files, isProcessing, errorMsg, dragItem, nextId, live, batch>>

\* formData() settles; lines 10-35 run without suspension: files and
\* fileName are read, the empty check and the validation loop run, and
\* PDFDocument.create() is called.
POST_formData(i) ==
  /\ post[i].pc = "formData"
  /\ LET c  == post[i]
         r  == c.request
         fs == r.files
         fn == OrElse(FormGet(r.fileName), DefaultFileName)
         d  == [c EXCEPT !.files = fs, !.fileName = fn]
     IN post' = [post EXCEPT ![i] =
          IF ~r.formOk
          THEN [c EXCEPT !.pc = "done", !.response = CatchResponse]
          ELSE IF NoFiles(fs)
          THEN [d EXCEPT !.pc = "done", !.response = JsonResponse(<<"No files provided">>, 400)]
          ELSE IF FirstRejected(fs) # 0
          THEN [d EXCEPT !.pc = "done", !.response = RejectResponse(fs[FirstRejected(fs)])]
          ELSE [d EXCEPT !.pc = "create"]]
  /\ UNCHANGED <<merge, files, isProcessing, errorMsg, dragItem, nextId, live, batch>>

\* create() settles: mergedPdf is the empty document; the loop starts and
\* awaits the first file's arrayBuffer().
POST_create(i) ==
  /\ post[i].pc = "create"
  /\ LET c == post[i]
     IN post' = [post EXCEPT ![i] =
          [c EXCEPT !.created = TRUE, !.mergedPdf = NewDocument(post, i), !.k = 1,
                    !.pc = IF Len(c.files) >= 1 THEN "arrayBuffer" ELSE "save"]]
  /\ UNCHANGED <<merge, files, isProcessing, errorMsg, dragItem, nextId, live, batch>>

\* arrayBuffer() settles: PDFDocument.load is called on the bytes.
POST_arrayBuffer(i) ==
  /\ post[i].pc = "arrayBuffer"
  /\ post' = [post EXCEPT ![i] = [@ EXCEPT !.loads = @ + 1, !.pc = "load"]]
  /\ UNCHANGED <<merge, files, isProcessing, errorMsg, dragItem, nextId, live, batch>>

\* load settles: with the parsed document (copyPages is called), or by
\* throwing, which the catch block turns into the 500 response.
POST_load(i) ==
  /\ post[i].pc = "load"
  /\ LET c == post[i]
         data == c.files[c.k].data
     IN post' = [post EXCEPT ![i] =
          IF Parseable(data)
          THEN [c EXCEPT !.pdfDoc = data, !.pc = "copyPages"]
          ELSE [c EXCEPT !.pc = "done", !.response = CatchResponse]]
  /\ UNCHANGED <<merge, files, isProcessing, errorMsg, dragItem, nextId, live, batch>>

\* The accumulator after the pages copied from pdfDoc were added.
Accumulate(mergedPdf, pdfDoc) ==
  addPages(mergedPdf, copyPages(pdfDoc, getPageIndices(pdfDoc)))

\* copyPages settles: the pages are added; the loop goes to the next file,
\* or ends and save() is called.
POST_copyPages(i) ==
  /\ post[i].pc = "copyPages"
  /\ LET c == post[i]
         m == Accumulate(c.mergedPdf, c.pdfDoc)
     IN post' = [post EXCEPT ![i] =
          IF c.k < Len(c.files)
          THEN [c EXCEPT !.mergedPdf = m, !.k = c.k + 1, !.pc = "arrayBuffer"]
          ELSE [c EXCEPT !.mergedPdf = m, !.pc = "save"]]
  /\ UNCHANGED <<merge, files, isProcessing, errorMsg, dragItem, nextId, live, batch>>

\* save() settles: the 200 response carries the bytes.
POST_save(i) ==
  /\ post[i].pc = "save"
  /\ LET c == post[i]
     IN post' = [post EXCEPT ![i] =
          [c EXCEPT !.pc = "done", !.response = PdfResponse(c.mergedPdf, c.fileName)]]
  /\ UNCHANGED <<merge, files, isProcessing, errorMsg, dragItem, nextId, live, batch>>

\* ------------------------------------------------------- mergePDFsClient
\* Mutant: the finally block is missing.
finallySkipped(processing) == processing

\* finally { setIsProcessing(false) }: isProcessing after the block.
finallyBlock(processing) == FALSE

\* The list renders: files.map reads file.id of every entry, which throws
\* on an undefined entry and takes the component down.
Renders == \A j \in DOMAIN files : files[j] # Undefined

\* The call: the empty check, setIsProcessing(true), setErrorMsg(null) and
\* the call of PDFDocument.create().  The closure reads the files of its
\* render.  The button is disabled while a merge is in flight; the function
\* is taken as callable on the empty list too, where its own check answers.
mergePDFsClient ==
  /\ Renders
  /\ merge.pc \in {"idle", "done"}
  /\ IF NoFiles(files)
     THEN /\ errorMsg' = <<"Please add at least one PDF file to merge.">>
          /\ merge' = [IdleCall EXCEPT !.pc = "done", !.files = files, !.invoked = files]
          /\ UNCHANGED isProcessing
     ELSE /\ isProcessing' = TRUE
          /\ errorMsg' = NoError
          /\ merge' = [IdleCall EXCEPT !.pc = "create", !.files = files, !.invoked = files]
  /\ UNCHANGED <<post, files, dragItem, nextId, live, batch>>

\* create() settles; the loop starts and load is called on the first file.
Client_create ==
  /\ merge.pc = "create"
  /\ merge' =
       IF Len(merge.files) >= 1
       THEN [merge EXCEPT !.created = TRUE, !.mergedPdf = <<>>, !.k = 1,
                          !.loads = @ + 1, !.pc = "load"]
       ELSE [merge EXCEPT !.created = TRUE, !.mergedPdf = <<>>, !.pc = "save"]
  /\ UNCHANGED <<post, files, isProcessing, errorMsg, dragItem, nextId, live, batch>>

\* load settles: with the parsed document, or by throwing: the inner catch
\* names the file, clears isProcessing and returns (finally clears it again).
Client_load ==
  /\ merge.pc = "load"
  /\ LET file == merge.files[merge.k]
     IN IF Parseable(file.data)
        THEN /\ merge' = [merge EXCEPT !.pdfDoc = file.data, !.pc = "copyPages"]
             /\ UNCHANGED <<isProcessing, errorMsg>>
        ELSE /\ merge' = [merge EXCEPT !.pc = "done"]
             /\ errorMsg' = <<"Error processing file: ", file.name>>
             /\ isProcessing' = finallyBlock(FALSE)
  /\ UNCHANGED <<post, files, dragItem, nextId, live, batch>>

\* copyPages settles: the pages are added; load is called on the next
\* file, or save() is called.
Client_copyPages ==
  /\ merge.pc = "copyPages"
  /\ LET m == Accumulate(merge.mergedPdf, merge.pdfDoc)
     IN merge' =
          IF merge.k < Len(merge.files)
          THEN [merge EXCEPT !.mergedPdf = m, !.k = @ + 1, !.loads = @ + 1, !.pc = "load"]
          ELSE [merge EXCEPT !.mergedPdf = m, !.pc = "save"]
  /\ UNCHANGED <<post, files, isProcessing, errorMsg, dragItem, nextId, live, batch>>

\* save() settles: the download link is clicked; finally clears
\* isProcessing.  (mergedFileName keeps its initial value.)
Client_save ==
  /\ merge.pc = "save"
  /\ merge' = [merge EXCEPT !.pc = "done",
                 !.link = <<[download |-> DefaultFileName, blob |-> merge.mergedPdf]>>]
  /\ isProcessing' = finallyBlock(isProcessing)
  /\ UNCHANGED <<post, files, errorMsg, dragItem, nextId, live, batch>>

\* ------------------------------------------------------- specifications
\* Mutant: a file whose thumbnail was not made is left out.
AcceptedWithThumbnail(fs) ==
  SelectSeq(SelectSeq(SelectSeq(fs, DropzoneAccepts), IsPdfFile),
            LAMBDA f : Thumbnail(f.data) # Null)

\* The Files of a drop that reach the FileList: accepted by the dropzone
\* and kept by the filter of onDrop.
Accepted(fs) == SelectSeq(SelectSeq(fs, DropzoneAccepts), IsPdfFile)

\* The entries onDrop appends for the Files fs, the identifiers following n.
NewFiles(fs, n) == [j \in DOMAIN Accepted(fs) |-> PDFFile(n + j, Accepted(fs)[j])]

\* The FileList after the Files fs were dropped on the empty component.
Dropped(fs) == NewFiles(fs, 0)

Ids(fl) == {fl[j].id : j \in {h \in DOMAIN fl : fl[h] # Undefined}}

\* ---------------------------------------------------------- the FileList
\* The Files of one drop: one File, or two different ones.
Drops ==
  {<<f>> : f \in UploadFiles} \cup {p \in UploadFiles \X UploadFiles : p[1] # p[2]}

Init ==
  /\ post = [i \in CallIds |-> IdleCall]
  /\ merge = IdleCall
  /\ batch \in Batches
  /\ files = Dropped(batch)
  /\ isProcessing = FALSE
  /\ errorMsg = NoError
  /\ dragItem = <<>>
  /\ nextId = Len(files)
  /\ live = Ids(files)

\* The user's documents are dropped on the component and merged there, and
\* uploaded to the server in one request.
Next ==
  \/ \E r \in RequestsFor(batch) : POST_enter(1, r)
  \/ POST_formData(1)
  \/ POST_create(1)
  \/ POST_arrayBuffer(1)
  \/ POST_load(1)
  \/ POST_copyPages(1)
  \/ POST_save(1)
  \/ mergePDFsClient
  \/ Client_create
  \/ Client_load
  \/ Client_copyPages
  \/ Client_save

Spec == Init /\ [][Next]_vars

\* Files are dropped on the dropzone: onDrop runs on the accepted ones and
\* appends their entries; onDropRejected then reports the rejected ones.
onDrop(fs) ==
  /\ Renders
  /\ nextId + Len(Accepted(fs)) <= MaxIds
  /\ Len(files) + Len(Accepted(fs)) <= MaxFiles
  /\ LET rejected == SelectSeq(fs, LAMBDA f : ~DropzoneAccepts(f))
         new == NewFiles(fs, nextId)
     IN /\ files' = files \o new
        /\ nextId' = nextId + Len(new)
        /\ live' = live \cup Ids(new)
        /\ errorMsg' =
             IF Len(rejected) > 0
             THEN JoinMessages([j \in DOMAIN rejected |-> RejectionMessage(rejected[j])])
             ELSE IF Len(new) = 0 THEN <<"Only PDF files are accepted.">>
             ELSE NoError
  /\ UNCHANGED <<post, merge, isProcessing, dragItem, batch>>

\* The remove button of the FileItem of the file id.
removeFile(id) ==
  /\ Renders
  /\ id \in Ids(files)
  /\ files' = SelectSeq(files, LAMBDA file : file.id # id)
  /\ live' = live \ {id}
  /\ UNCHANGED <<post, merge, isProcessing, errorMsg, dragItem, nextId, batch>>

\* A drag of the FileItem at index begins: the item is { index }.
beginDrag(index) ==
  /\ Renders
  /\ dragItem = <<>>
  /\ index \in 0..(Len(files) - 1)
  /\ dragItem' = <<index>>
  /\ UNCHANGED <<post, merge, files, isProcessing, errorMsg, nextId, live, batch>>

\* The dragged item hovers over the FileItem rendered at hoverIndex: the
\* new array becomes the state.  A merge in flight that was called on the
\* array prevFiles (no setFiles since: its list equals the state) goes on
\* iterating that array.
hover(hoverIndex) ==
  /\ Renders
  /\ dragItem # <<>>
  /\ hoverIndex \in 0..(Len(files) - 1)
  /\ dragItem[1] # hoverIndex
  /\ files' = moveFile(files, dragItem[1], hoverIndex)
  /\ dragItem' = <<hoverIndex>>
  /\ merge' =
       IF merge.pc \notin {"idle", "done"} /\ merge.files = files
       THEN [merge EXCEPT !.files = prevFilesAfterMove(files, dragItem[1], hoverIndex)]
       ELSE merge
  /\ UNCHANGED <<post, isProcessing, errorMsg, nextId, live, batch>>

\* The drag ends.
endDrag ==
  /\ dragItem # <<>>
  /\ dragItem' = <<>>
  /\ UNCHANGED <<post, merge, files, isProcessing, errorMsg, nextId, live, batch>>

\* The Clear all button, rendered when the list is not empty.
clearFiles ==
  /\ Renders
  /\ Len(files) > 0
  /\ files' = <<>>
  /\ errorMsg' = NoError
  /\ live' = {}
  /\ UNCHANGED <<post, merge, isProcessing, dragItem, nextId, batch>>

InitUI ==
  /\ post = [i \in CallIds |-> IdleCall]
  /\ merge = IdleCall
  /\ batch = <<>>
  /\ files = <<>>
  /\ isProcessing = FALSE
  /\ errorMsg = NoError
  /\ dragItem = <<>>
  /\ nextId = 0
  /\ live = {}

\* The user adds, removes, reorders and clears files.
NextUI ==
  \/ \E fs \in Drops : onDrop(fs)
  \/ \E id \in 1..MaxIds : removeFile(id)
  \/ \E index \in 0..(MaxFiles - 1) : beginDrag(index)
  \/ \E hoverIndex \in 0..(MaxFiles - 1) : hover(hoverIndex)
  \/ endDrag
  \/ clearFiles

SpecUI == InitUI /\ [][NextUI]_vars

\* Concurrent requests: each uploads two of these documents, in some order.
ConcFiles == {UploadFile("A", PdfType), UploadFile("B", PdfType), UploadFile("X", PdfType)}

ConcRequests ==
  {[formOk |-> TRUE, files |-> fs, fileName |-> <<>>] :
     fs \in {p \in ConcFiles \X ConcFiles : p[1] # p[2]}}

InitConc ==
  /\ post = [i \in CallIds |-> IdleCall]
  /\ merge = IdleCall
  /\ batch = <<UploadFile("B", PdfType), UploadFile("A", PdfType)>>
  /\ files = Dropped(batch)
  /\ isProcessing = FALSE
  /\ errorMsg = NoError
  /\ dragItem = <<>>
  /\ nextId = Len(files)
  /\ live = Ids(files)

\* NumCalls requests are handled by the server at once, each suspended at
\* its awaits, while the client merges its FileList.
NextConc ==
  \/ \E i \in CallIds : \E r \in ConcRequests : POST_enter(i, r)
  \/ \E i \in CallIds : POST_formData(i)
  \/ \E i \in CallIds : POST_create(i)
  \/ \E i \in CallIds : POST_arrayBuffer(i)
  \/ \E i \in CallIds : POST_load(i)
  \/ \E i \in CallIds : POST_copyPages(i)
  \/ \E i \in CallIds : POST_save(i)
  \/ mergePDFsClient
  \/ Client_create
  \/ Client_load
  \/ Client_copyPages
  \/ Client_save

SpecConc == InitConc /\ [][NextConc]_vars

\* ------------------------------------------------------- mergePDFsServer
\* The FormData of mergePDFsServer: one Blob of type application/pdf per
\* entry, under the entry's name, and the fileName field.
FormDataOf(fs, fileName) ==
  [formOk |-> TRUE,
   files |-> [j \in DOMAIN fs |->
               [name |-> fs[j].name, size |-> ByteLength(fs[j].data),
                type |-> PdfType, data |-> fs[j].data]],
   fileName |-> <<fileName>>]

\* The call: the empty check, setIsProcessing(true), setErrorMsg(null), the
\* FormData built from the files of the render, and the call of fetch.  The
\* handler invocation that will serve the request has not started.
mergePDFsServer ==
  /\ Renders
  /\ merge.pc \in {"idle", "done"}
  /\ IF NoFiles(files)
     THEN /\ errorMsg' = <<"Please add at least one PDF file to merge.">>
          /\ merge' = [IdleCall EXCEPT !.pc = "done", !.files = files, !.invoked = files]
          /\ UNCHANGED <<isProcessing, post>>
     ELSE /\ isProcessing' = TRUE
          /\ errorMsg' = NoError
          /\ merge' = [IdleCall EXCEPT !.pc = "fetch", !.files = files, !.invoked = files,
                                       !.request = FormDataOf(files, DefaultFileName)]
          /\ post' = [post EXCEPT ![1] = IdleCall]
  /\ UNCHANGED <<files, dragItem, nextId, live, batch>>

\* The request of the fetch in flight reaches the route handler.
Server_request ==
  /\ merge.pc = "fetch"
  /\ post[1].pc = "idle"
  /\ POST_enter(1, merge.request)

\* The message of the Error thrown for a response that is not ok.
ServerErrorMessage(response) ==
  IF response.error = NoError THEN <<"Server error">> ELSE response.error

\* fetch settles with the handler's response: not ok, the error of its JSON
\* body is thrown and the catch block reports it; ok, the blob is downloaded.
\* finally clears isProcessing.
Server_response ==
  /\ merge.pc = "fetch"
  /\ post[1].pc = "done"
  /\ LET response == post[1].response
     IN IF response.status # 200
        THEN /\ merge' = [merge EXCEPT !.pc = "done", !.response = response,
                            !.thrown = ServerErrorMessage(response)]
             /\ errorMsg' = <<"Error: ">> \o ServerErrorMessage(response)
        ELSE /\ merge' = [merge EXCEPT !.pc = "done", !.response = response,
                            !.link = <<[download |-> DefaultFileName, blob |-> response.body]>>]
             /\ UNCHANGED errorMsg
  /\ isProcessing' = finallyBlock(isProcessing)
  /\ UNCHANGED <<post, files, dragItem, nextId, live, batch>>

\* fetch rejects (the request does not reach the server): the catch block
\* reports the TypeError; finally clears isProcessing.
Server_reject ==
  /\ merge.pc = "fetch"
  /\ post[1].pc = "idle"
  /\ merge' = [merge EXCEPT !.pc = "done", !.thrown = <<"Failed to fetch">>]
  /\ errorMsg' = <<"Error: ", "Failed to fetch">>
  /\ isProcessing' = finallyBlock(isProcessing)
  /\ UNCHANGED <<post, files, dragItem, nextId, live, batch>>

\* PDFDocument.create() or mergedPdf.save() rejects in mergePDFsClient: the
\* outer catch block reports it; finally clears isProcessing.
Client_reject ==
  /\ merge.pc \in {"create", "save"}
  /\ merge' = [merge EXCEPT !.pc = "done", !.thrown = <<"pdf-lib error">>]
  /\ errorMsg' = <<"An error occurred while merging the PDFs. Please try again.">>
  /\ isProcessing' = finallyBlock(isProcessing)
  /\ UNCHANGED <<post, files, dragItem, nextId, live, batch>>

\* A step of the route handler serving the request of mergePDFsServer.
Serve ==
  \/ Server_request
  \/ POST_formData(1)
  \/ POST_create(1)
  \/ POST_arrayBuffer(1)
  \/ POST_load(1)
  \/ POST_copyPages(1)
  \/ POST_save(1)

\* A promise awaited by mergePDFsClient settles with a value.
ClientStep ==
  \/ Client_create
  \/ Client_load
  \/ Client_copyPages
  \/ Client_save

\* The Files dropped while the list is edited under a merge: one at a time,
\* of two pages or of one page.
EditDrops == {<<UploadFile(d, PdfType)>> : d \in {"A", "B"}}

\* The user adds, removes, reorders and clears files and starts merges, in
\* the browser or on the server, while the merge in flight goes on.
NextEdit ==
  \/ \E fs \in EditDrops : nextId < MaxDrops /\ onDrop(fs)
  \/ \E id \in 1..MaxIds : removeFile(id)
  \/ \E index \in 0..(MaxFiles - 1) : beginDrag(index)
  \/ \E hoverIndex \in 0..(MaxFiles - 1) : hover(hoverIndex)
  \/ endDrag
  \/ clearFiles
  \/ mergePDFsClient
  \/ mergePDFsServer
  \/ ClientStep
  \/ Serve
  \/ Server_response

SpecEdit == InitUI /\ [][NextEdit]_vars

\* The Files of a drop followed by merges: one or two of a document of two
\* pages, one that has no preview, a corrupt one, an oversize one and one
\* that is declared as text.
PreviewDrops ==
  LET fs == {UploadFile(d, PdfType) : d \in {"A", "F", "X", "G"}}
              \cup {UploadFile("B", "text/plain")}
  IN {<<f>> : f \in fs} \cup {p \in fs \X fs : p[1] # p[2]}

\* Files are dropped, with and without preview, and merged in the browser.
NextPreview ==
  \/ \E fs \in PreviewDrops : onDrop(fs)
  \/ clearFiles
  \/ mergePDFsClient
  \/ ClientStep

SpecPreview == InitUI /\ [][NextPreview]_vars

\* The Files dropped while merges succeed and fail: one at a time, a valid
\* one, a corrupt one or an oversize one.
SettleDrops == {<<UploadFile(d, PdfType)>> : d \in {"A", "X", "G"}}

\* A promise awaited by the merge in flight settles, with a value or by
\* rejecting, or the route handler takes a step for it.
Settle ==
  \/ ClientStep
  \/ Client_reject
  \/ Serve
  \/ Server_response
  \/ Server_reject

\* Merges are started, in the browser or on the server, and end, while
\* files are dropped and the list is cleared.
NextSettle ==
  \/ \E fs \in SettleDrops : nextId < MaxDrops /\ onDrop(fs)
  \/ clearFiles
  \/ mergePDFsClient
  \/ mergePDFsServer
  \/ Settle

\* Every promise a merge awaits settles, and the server handles the request
\* it was sent.
SpecSettle == InitUI /\ [][NextSettle]_vars /\ WF_vars(Settle)

\* ========================================================== properties
PostDone(i) == post[i].pc = "done"
PostOk(i) == PostDone(i) /\ post[i].response.status = 200
ClientDone == merge.pc = "done"
ClientOk == ClientDone /\ merge.link # <<>>

\* Page counts of the documents of a file list.
Counts(fs) == [j \in DOMAIN fs |-> PageCount(fs[j].data)]

\* Number of pages before the pages of the k-th file.
Offset(fs, k) == SumTo(Counts(fs), k - 1)

\* out has p1+...+pN pages, and page i of input k is at position
\* (p1+...+p(k-1)) + i, counting pages and positions from 0.
IsConcatenation(out, fs) ==
  /\ Len(out) = SumTo(Counts(fs), Len(fs))
  /\ \A k \in DOMAIN fs : \A i \in 0..(PageCount(fs[k].data) - 1) :
       out[Offset(fs, k) + i + 1] = [doc |-> fs[k].data, index |-> i]

\* The file passes the two checks of the server.
PassesChecks(f) == f.size <= 10485760 /\ f.type = "application/pdf"

\* C1: a successful merge of N >= 1 files, on the server and in the client,
\* yields exactly p1+...+pN pages, page i of input k at position
\* (sum of pj for j<k) + i: the concatenation, in list order, of the inputs'
\* page sequences.
C1_MergeIsConcatenation ==
  /\ \A i \in CallIds : PostOk(i) =>
       /\ Len(post[i].request.files) >= 1
       /\ IsConcatenation(post[i].response.body, post[i].request.files)
  /\ ClientOk =>
       /\ Len(merge.files) >= 1
       /\ IsConcatenation(merge.link[1].blob, merge.files)

\* Both paths have merged three files, the two-page document in the middle.
C1_Witness ==
  /\ PostOk(1) /\ Len(post[1].request.files) = 3 /\ post[1].request.files[2].data = "A"
  /\ ClientOk /\ Len(merge.files) = 3 /\ merge.files[2].data = "A"

\* The list has exactly one file that does not parse, every file passing the
\* size check (and, where declared, the type check).
OneCorrupt(fs) ==
  /\ Cardinality({j \in DOMAIN fs : ~Parseable(fs[j].data)}) = 1
  /\ \A j \in DOMAIN fs : fs[j].size <= 10485760

\* The message names the file of the list that does not parse.
NamesCorrupt(msg, fs) ==
  \E j \in DOMAIN fs : ~Parseable(fs[j].data) /\ \E p \in DOMAIN msg : msg[p] = fs[j].name

\* C2: a batch with one corrupt file among otherwise valid files fails with
\* an error that identifies that file and produces no output bytes, on the
\* server path and on the client path, wherever the corrupt file sits.
C2_CorruptFileIdentified ==
  /\ \A i \in CallIds :
       (/\ PostDone(i) /\ post[i].request.formOk
        /\ OneCorrupt(post[i].request.files)
        /\ \A j \in DOMAIN post[i].request.files : PassesChecks(post[i].request.files[j]))
       => /\ post[i].response.status # 200
          /\ post[i].response.body = <<>>
          /\ NamesCorrupt(post[i].response.error, post[i].request.files)
  /\ (ClientDone /\ OneCorrupt(merge.files))
       => /\ merge.link = <<>>
          /\ NamesCorrupt(errorMsg, merge.files)

\* C3: an empty input list fails with the no-files condition before any
\* parsing and before the output document is created: the server answers 400
\* 'No files provided'; the client sets its message and never enters the
\* processing state.
C3_EmptyListRejectedFirst ==
  /\ [](\A i \in CallIds :
          (PostDone(i) /\ post[i].request.formOk /\ Len(post[i].request.files) = 0)
          => /\ post[i].response.status = 400
             /\ post[i].response.error = <<"No files provided">>
             /\ post[i].response.body = <<>>
             /\ ~post[i].created /\ post[i].loads = 0)
  /\ []((ClientDone /\ Len(merge.files) = 0)
          => /\ errorMsg = <<"Please add at least one PDF file to merge.">>
             /\ merge.link = <<>>
             /\ ~merge.created /\ merge.loads = 0)
  /\ [][(merge.pc \in {"idle", "done"} /\ Len(files) = 0 /\ merge' # merge)
          => (merge'.pc = "done" /\ isProcessing' = isProcessing /\ ~isProcessing')]_vars

\* Both paths have returned for an empty list.
C3_Witness ==
  /\ PostDone(1) /\ post[1].request.formOk /\ Len(post[1].request.files) = 0
  /\ ClientDone /\ Len(merge.files) = 0

\* C4: on the server no file is parsed and no output document is created
\* unless every file of the request passed the size check and the type
\* check; a request with an oversize or wrongly typed file, at any position,
\* is answered 400 with nothing parsed and nothing created.
C4_ChecksBeforeMergeWork ==
  \A i \in CallIds :
    LET fs == post[i].request.files
        allPass == \A j \in DOMAIN fs : PassesChecks(fs[j])
    IN /\ (post[i].created \/ post[i].loads > 0 \/ post[i].mergedPdf # <<>>) => allPass
       /\ (PostDone(i) /\ post[i].request.formOk /\ ~allPass)
            => /\ post[i].response.status = 400
               /\ post[i].loads = 0 /\ ~post[i].created

\* A request of three files whose last file alone fails a check was answered.
C4_Witness ==
  LET fs == post[1].request.files
  IN /\ PostDone(1) /\ Len(fs) = 3
     /\ PassesChecks(fs[1]) /\ PassesChecks(fs[2]) /\ ~PassesChecks(fs[3])
     /\ post[1].response.status = 400

\* Validation of the request failed: no files, or a file fails a check.
ValidationFailed(r) ==
  r.formOk /\ (Len(r.files) = 0 \/ \E j \in DOMAIN r.files : ~PassesChecks(r.files[j]))

\* Validation of the request passed.
ValidationPassed(r) ==
  r.formOk /\ Len(r.files) >= 1 /\ \A j \in DOMAIN r.files : PassesChecks(r.files[j])

AllParse(r) == \A j \in DOMAIN r.files : Parseable(r.files[j].data)

IsJsonError(resp) ==
  resp.contentType = "application/json" /\ resp.error # NoError /\ resp.body = <<>>

IsAttachment(resp) ==
  /\ resp.contentType = "application/pdf"
  /\ \E n \in {"merged-document.pdf", "report.pdf", ""} :
       resp.disposition = "attachment; filename=\"" \o n \o "\""

C9_HeaderCarriesField ==
  \A i \in CallIds : PostOk(i) =>
    LET fn == post[i].request.fileName
    IN post[i].response.disposition =
         "attachment; filename=\"" \o (IF fn = <<>> THEN "merged-document.pdf" ELSE fn[1]) \o "\""

\* C9 (amended): without a fileName field, or with an empty one, the download
\* is named 'merged-document.pdf'; with a non-empty field the header carries
\* exactly the requested name.
C9_HeaderCarriesNonEmptyField ==
  \A i \in CallIds : PostOk(i) =>
    LET fn == post[i].request.fileName
    IN post[i].response.disposition =
         "attachment; filename=\"" \o
           (IF fn = <<>> \/ fn = <<"">> THEN "merged-document.pdf" ELSE fn[1]) \o "\""

\* A merged request whose fileName field was present and empty.
C9_Witness == PostOk(1) /\ post[1].request.fileName = <<"">>

\* The documents of a file list, in order.
DocsOf(fs) == [j \in DOMAIN fs |-> fs[j].data]

ReversedInputs(i) ==
  /\ PostOk(i) /\ ClientOk
  /\ DocsOf(post[i].request.files) = Reverse(DocsOf(merge.files))

\* The pages of out that come from the k-th file of fs.
Block(out, fs, k) ==
  SubSeq(out, Offset(fs, k) + 1, Offset(fs, k) + PageCount(fs[k].data))

\* C7 as stated: merging [A, B, C] and merging [C, B, A] yields outputs whose
\* page sequences are exact reverses of each other.
C7_ExactReverse ==
  \A i \in CallIds :
    (ReversedInputs(i) /\ Len(merge.files) = 3)
    => post[i].response.body = Reverse(merge.link[1].blob)

\* C7 (amended): merging [A, B, C] and merging [C, B, A] yields outputs of
\* the same length in which the documents appear in opposite order, the pages
\* of each document in their own order; the page sequences are exact reverses
\* of each other when every document has a single page.
C7_ReverseByDocument ==
  \A i \in CallIds : ReversedInputs(i) =>
    LET sf == post[i].request.files
        cf == merge.files
        so == post[i].response.body
        co == merge.link[1].blob
        n  == Len(cf)
    IN /\ Len(so) = Len(co)
       /\ \A k \in 1..n : Block(so, sf, k) = Block(co, cf, n + 1 - k)
       /\ \A k \in 1..n : Block(so, sf, k) = copyPages(sf[k].data, getPageIndices(sf[k].data))
       /\ (\A k \in 1..n : PageCount(cf[k].data) = 1) => so = Reverse(co)

\* Three documents, the two-page one first, were merged in both orders.
C7_Witness ==
  /\ ReversedInputs(1) /\ Len(merge.files) = 3
  /\ merge.files[1].data = "A" /\ post[1].request.files[3].data = "A"

\* The number of files of the invocation whose pages it has added.
Added(c) ==
  IF ~c.created THEN 0
  ELSE IF c.pc = "save" \/ (c.pc = "done" /\ (c.response.status = 200 \/ c.link # <<>>))
  THEN Len(c.files)
  ELSE c.k - 1

\* C8: under any interleaving of concurrent invocations at their awaits,
\* every invocation holds, at every step, exactly the pages of the files of
\* its own input it has processed so far, and its output is the
\* concatenation of its own inputs: no page of another invocation, nothing
\* left by an earlier call.
C8_InvocationsIndependent ==
  /\ \A i \in CallIds :
       /\ IsConcatenation(post[i].mergedPdf, SubSeq(post[i].files, 1, Added(post[i])))
       /\ PostOk(i) => post[i].response.body = post[i].mergedPdf
                        /\ Added(post[i]) = Len(post[i].request.files)
  /\ IsConcatenation(merge.mergedPdf, SubSeq(merge.files, 1, Added(merge)))
  /\ ClientOk => merge.link[1].blob = merge.mergedPdf /\ Added(merge) = Len(merge.files)

\* Two requests with different file lists and the client merge are all
\* suspended in the middle of their loops.
C8_Witness ==
  /\ post[1].pc = "copyPages" /\ post[1].k = 2
  /\ post[2].pc = "load" /\ post[2].k = 1 /\ post[2].files # post[1].files
  /\ merge.pc = "load" /\ merge.k = 2

\* C10: after any sequence of onDrop, removeFile, moveFile and clearFiles,
\* also with a drag index gone stale, the FileList holds exactly the files
\* added and not since removed, each once, with no undefined entry.
C10_FileListIntact ==
  /\ \A j \in DOMAIN files : files[j] # Undefined
  /\ Ids(files) = live
  /\ Len(files) = Cardinality(live)

\* A merge was called and has not returned.
InFlight == merge.pc \notin {"idle", "done"}

\* C11: a merge operates on the file sequence as it was when it was called:
\* the array it iterates stays that sequence whatever is added, removed,
\* reordered or cleared meanwhile, its output is the concatenation of that
\* sequence, and no step of the merge changes the FileList.
C11_MergeUsesFilesAtCall ==
  /\ [](InFlight => merge.files = merge.invoked)
  /\ [](ClientOk => IsConcatenation(merge.link[1].blob, merge.invoked))
  /\ [][InFlight => merge'.invoked = merge.invoked]_vars
  /\ [][(merge' # merge \/ post' # post) => files' = files]_vars

\* A merge of two files is at its second file while the FileList holds the
\* two files in the opposite order.
C11_Witness ==
  /\ merge.pc = "copyPages" /\ merge.k = 2 /\ Len(merge.invoked) = 2
  /\ merge.invoked[1].data # merge.invoked[2].data
  /\ files = Reverse(merge.invoked)

\* The preview of the document cannot be made: the bytes do not load, or the
\* loaded document does not serialize.
PreviewFails(d) == d \in {"X", "F"}

\* The Files of a drop that are PDFs of at most 10 MB, in order.
Droppable(fs) ==
  SelectSeq(fs, LAMBDA f : f.type = "application/pdf" /\ f.size <= 10485760)

\* What the drop of fs did: every droppable File was appended, in order,
\* without preview exactly when its preview fails, and the message names
\* none of them.
AppendedAll(fs) ==
  LET ok == Droppable(fs)
  IN /\ Len(files') = Len(files) + Len(ok)
     /\ SubSeq(files', 1, Len(files)) = files
     /\ \A n \in DOMAIN ok :
          LET e == files'[Len(files) + n]
          IN /\ e.name = ok[n].name /\ e.data = ok[n].data
             /\ (e.thumbnail = "<null>") <=> PreviewFails(ok[n].data)
     /\ \A n \in DOMAIN ok : \A q \in DOMAIN errorMsg' : errorMsg'[q] # ok[n].name
     /\ (Len(ok) = Len(fs)) => errorMsg' = <<>>

\* C12: a dropped PDF whose preview cannot be made is still appended to the
\* FileList, without preview and without an error message; the merge can be
\* called on such a list, and it succeeds exactly when every file of the
\* list parses, with the concatenation of the files as its output.
C12_ThumbnailBestEffort ==
  /\ [][\A fs \in PreviewDrops : onDrop(fs) => AppendedAll(fs)]_vars
  /\ [](~InFlight => ENABLED mergePDFsClient)
  /\ []((ClientDone /\ Len(merge.invoked) >= 1)
          => (ClientOk <=> \A j \in DOMAIN merge.invoked : Parseable(merge.invoked[j].data)))
  /\ [](ClientOk => IsConcatenation(merge.link[1].blob, merge.invoked))

\* A list of a file without preview and a file with one was merged.
C12_Witness ==
  /\ ClientOk /\ Len(merge.invoked) >= 2
  /\ merge.invoked[1].thumbnail = "<null>" /\ merge.invoked[1].data = "F"
  /\ merge.invoked[2].thumbnail # "<null>"

\* A step that ends the merge in flight; it ended in failure when it made
\* no download.
MergeEnds == InFlight /\ ~InFlight'

\* Every merge that set isProcessing resets it, and isProcessing is false
\* whenever no merge is in flight.
ProcessingIsReset ==
  /\ [](isProcessing => <>(~isProcessing))
  /\ [](~InFlight => ~isProcessing)
  /\ [][(~InFlight /\ InFlight') => isProcessing']_vars

\* C13 as stated: every merge call that sets isProcessing sets it back to
\* false, however the merge ends; isProcessing is false whenever no merge is
\* in flight; a merge that ended in failure leaves a non-null error message
\* and a successful one leaves it null.
C13_ProcessingResetMessageNull ==
  /\ ProcessingIsReset
  /\ [][MergeEnds => IF merge'.link = <<>> THEN errorMsg' # <<>> ELSE errorMsg' = <<>>]_vars

\* C13 (amended): as C13_ProcessingResetMessageNull, a successful merge
\* leaving the message null unless a drop made during the merge set one: the
\* call sets the message to null, the merge writes it only when it ends in
\* failure, and while it is in flight only a drop sets a message.
C13_ProcessingResetMessageKept ==
  /\ ProcessingIsReset
  /\ [][(~InFlight /\ InFlight') => errorMsg' = <<>>]_vars
  /\ [][MergeEnds => IF merge'.link = <<>> THEN errorMsg' # <<>> ELSE errorMsg' = errorMsg]_vars
  /\ [][(InFlight /\ InFlight' /\ errorMsg' # errorMsg /\ errorMsg' # <<>>)
          => \E fs \in SettleDrops : onDrop(fs)]_vars

\* A merge on the server has ended with the error of the 500 response, and
\* isProcessing is false again.
C13_Witness ==
  /\ merge.pc = "done" /\ merge.response.status = 500 /\ merge.link = <<>>
  /\ Len(merge.invoked) = 2
  /\ errorMsg = <<"Error: ", "An error occurred while merging the PDFs">>
  /\ ~isProcessing

====
